---- MODULE Spec2Model ----
(***************************************************************************)
(* Project Icarus: the GameOrchestrator round loop (start_game,            *)
(* run_game_loop, the two team turns, execute_in_container,                *)
(* evaluate_round, award_points) over the games / rounds / events tables.  *)
(* Command output is modelled as the set of textual cues it contains.      *)
(***************************************************************************)
EXTENDS Integers, Sequences, FiniteSets, TLC

\* Largest configured max_rounds explored.
MaxRounds == 2

\* Largest number of consecutive failures the database produces for one
\* log_round request.
MaxSinkFaults == 2

Teams == {"red", "blue"}

\* Command texts, as sequences of characters.
CmdScan == << "n", "m", "a", "p" >>
CmdWipe == << "r", "m", " ", "-", "r", "f", " ", "/" >>
CmdNone == << "n", "o", "n", "e" >>
CmdBlock == << "i", "p", "t", "a", "b", "l", "e", "s" >>

\* parse_ai_response result that is not the documented decision dict.
Malformed == [malformed |-> TRUE]

----------------------------------------------------------------------------
(* Inputs: decisions of the two agents and what the container does.        *)

RedDecisions ==
    { Malformed,
      [reasoning |-> "scan", command |-> CmdScan, phase |-> "reconnaissance"],
      [reasoning |-> "wipe", command |-> CmdWipe, phase |-> "absent"] }

BlueDecisions ==
    { Malformed,
      [reasoning |-> "quiet", defensive_action |-> CmdNone],
      [reasoning |-> "block", defensive_action |-> CmdBlock] }

\* What docker does with one exec request: containers.get or exec_run
\* raises, or the program runs and leaves an exit code and two streams;
\* decodable = both streams are valid UTF-8. A timeout outcome carries
\* what the process goes on to produce after the expiry.
RedOutcomes ==
    { [kind |-> "not_found"], [kind |-> "transport"],
      [kind |-> "timeout", exit_code |-> 0, stdout |-> {"open_port"},
       stderr |-> {}, decodable |-> TRUE],
      [kind |-> "ran", exit_code |-> 0, stdout |-> {"port_table", "open_port"},
       stderr |-> {}, decodable |-> TRUE],
      [kind |-> "ran", exit_code |-> 0,
       stdout |-> {"open_port", "service_banner", "shell_prompt"},
       stderr |-> {}, decodable |-> TRUE],
      [kind |-> "ran", exit_code |-> 0, stdout |-> {"flag_data"},
       stderr |-> {}, decodable |-> TRUE],
      [kind |-> "ran", exit_code |-> 0, stdout |-> {"raw_bytes"},
       stderr |-> {}, decodable |-> FALSE],
      [kind |-> "ran", exit_code |-> 1, stdout |-> {},
       stderr |-> {"usage"}, decodable |-> TRUE] }

BlueOutcomes ==
    { [kind |-> "transport"],
      [kind |-> "timeout", exit_code |-> 0, stdout |-> {"drop_rule"},
       stderr |-> {}, decodable |-> TRUE],
      [kind |-> "ran", exit_code |-> 0, stdout |-> {"drop_rule", "ban_notice"},
       stderr |-> {}, decodable |-> TRUE],
      [kind |-> "ran", exit_code |-> 0, stdout |-> {"service_inactive"},
       stderr |-> {}, decodable |-> TRUE],
      [kind |-> "ran", exit_code |-> 0, stdout |-> {"recovery_done"},
       stderr |-> {}, decodable |-> TRUE],
      [kind |-> "ran", exit_code |-> 1, stdout |-> {},
       stderr |-> {"usage"}, decodable |-> TRUE] }

SandboxFaults == {"not_found", "transport", "timeout"}

----------------------------------------------------------------------------
VARIABLES
    pc,            \* position of the orchestrator in run_game_loop
    max_rounds,    \* config['max_rounds']
    round_number,  \* self.round_number
    game,          \* the games row: red_score, blue_score, status, winner, ended
    rounds,        \* the rounds table of the game, in insertion order
    events,        \* the events table of the game, in insertion order
    red_result,    \* value returned by execute_red_team_turn this round
    blue_result,   \* value returned by execute_blue_team_turn this round
    round_id,      \* value returned by db.log_round this round
    last_exec,     \* the last execute_in_container call and what it returned
    dispatched,    \* exec requests sent to the containers: <<round, team, command>>
    sink_faults,   \* consecutive failures the database gives the pending log_round
    exception,     \* the exception that left run_game_loop, or "none"
    abort_signal,  \* external stop request
    in_flight,     \* containers with an exec request that has not returned
    pending,       \* the decision whose command is being executed
    abort_at,      \* where the loop stood when the stop request arrived
    phase_log,     \* get_current_phase calls: << round_number, phase returned >>
    score_runs,    \* evaluate_round runs compared: << start, outcome, outcome >>
    probe,         \* a call made on its own: its arguments and what it returned
    view,          \* dashboard App: useState('games')
    selectedGame,  \* dashboard App: useState(null); 0 stands for null
    socket,        \* dashboard App: useState(null); TRUE once setSocket ran
    liveSelected,  \* LiveMonitor: its own selectedGame state
    effect,        \* the socket effect that ran last: its component and deps
    rooms,         \* joins minus leaves emitted, per game
    handlers       \* listeners registered on the socket, per event

vars == << pc, max_rounds, round_number, game, rounds, events, red_result,
           blue_result, round_id, last_exec, dispatched, sink_faults,
           exception, abort_signal, in_flight, pending, abort_at, phase_log,
           score_runs, probe, view, selectedGame, socket, liveSelected,
           effect, rooms, handlers >>

dashVars == << view, selectedGame, socket, liveSelected, effect, rooms, handlers >>

gameVars == << pc, max_rounds, round_number, game, rounds, events, red_result,
               blue_result, round_id, last_exec, dispatched, sink_faults,
               exception, abort_signal, in_flight, pending, abort_at,
               phase_log, score_runs >>

NoProbe == [call |-> "-"]
NoEffect == [component |-> "-", game |-> 0, socket |-> FALSE]
SocketEvents == {"game_update", "round_complete", "game_over"}
MaxGames == 3
GameIds == 1..MaxGames

\* the dashboard as first rendered: list of games, no socket yet
DashInit ==
    /\ view = "games"
    /\ selectedGame = 0
    /\ socket = FALSE
    /\ liveSelected = 0
    /\ effect = NoEffect
    /\ rooms = [g \in GameIds |-> 0]
    /\ handlers = [e \in SocketEvents |-> 0]

NoPending == [idle |-> TRUE]
NotAborted == [at |-> "-", round |-> 0]
LoopPosition(p) == IF p = "loop" THEN "top" ELSE IF p \in {"end_game", "done", "crashed"} THEN "after" ELSE "mid"

NoTurn == [action |-> << >>, result |-> {}, success |-> FALSE, phase |-> "-"]
NoExec == [container |-> "-", command |-> << >>, outcome |-> [kind |-> "-"],
           result |-> [exit_code |-> 0, stdout |-> {}, stderr |-> {}]]

----------------------------------------------------------------------------
(* Sandbox executor                                                        *)

ErrorText(outcome) ==
    IF outcome.kind = "ran" THEN "codec can't decode" ELSE outcome.kind

\* execute_in_container that hands back what a timed-out process produced.
execute_in_container_LateOutput(container, command, outcome) ==
    IF outcome.kind \in {"ran", "timeout"} /\ outcome.decodable
    THEN [exit_code |-> outcome.exit_code, stdout |-> outcome.stdout,
          stderr |-> outcome.stderr]
    ELSE [exit_code |-> -1, stdout |-> {}, stderr |-> {ErrorText(outcome)}]

\* try: get container, exec_run, decode both streams; except Exception: -1.
execute_in_container(container, command, outcome) ==
    IF outcome.kind = "ran" /\ outcome.decodable
    THEN [exit_code |-> outcome.exit_code, stdout |-> outcome.stdout,
          stderr |-> outcome.stderr]
    ELSE [exit_code |-> -1, stdout |-> {}, stderr |-> {ErrorText(outcome)}]

----------------------------------------------------------------------------
(* Command safety                                                          *)

ALLOWED_RED_COMMANDS ==
    { << "n", "m", "a", "p" >>, << "c", "u", "r", "l" >>,
      << "w", "g", "e", "t" >>, << "n", "c" >>, << "s", "s", "h" >>,
      << "f", "t", "p" >>, << "s", "q", "l", "m", "a", "p" >>,
      << "n", "i", "k", "t", "o" >>, << "d", "i", "r", "b" >>,
      << "h", "y", "d", "r", "a" >>, << "j", "o", "h", "n" >> }

BLOCKED_COMMANDS ==
    { << "r", "m", " ", "-", "r", "f", " ", "/" >>,
      << "d", "d" >>,
      << ":", "(", ")", "{", " ", ":", "|", ":", "&", " ", "}", ";", ":" >> }

\* Contains that only looks at the start of the command.
Contains_Prefix(command, blocked) ==
    /\ Len(blocked) <= Len(command)
    /\ SubSeq(command, 1, Len(blocked)) = blocked

\* Python's `blocked in command`: blocked is a contiguous part of command.
Contains(command, blocked) ==
    \E i \in 0..(Len(command) - Len(blocked)) :
        SubSeq(command, i + 1, i + Len(blocked)) = blocked

validate_command(command) ==
    ~\E blocked \in BLOCKED_COMMANDS : Contains(command, blocked)

----------------------------------------------------------------------------
(* Database layer (GameDatabase)                                           *)

\* INSERT INTO rounds: the points-earned columns are not passed and take
\* their DEFAULT 0; the phase column is the label carried by red_data.
log_round(tbl, round_num, red_data, blue_data) ==
    Append(tbl, [round_number |-> round_num,
                 phase |-> red_data.phase,
                 red_action |-> red_data.action,
                 red_success |-> red_data.success,
                 red_points_earned |-> 0,
                 blue_action |-> blue_data.action,
                 blue_success |-> blue_data.success,
                 blue_points_earned |-> 0])

update_score(g, team, points) ==
    IF team = "red" THEN [g EXCEPT !.red_score = @ + points]
                    ELSE [g EXCEPT !.blue_score = @ + points]

record_event(tbl, rid, event_type, team, points) ==
    Append(tbl, [round_id |-> rid, event_type |-> event_type, team |-> team,
                 points_awarded |-> points])

----------------------------------------------------------------------------
(* Event detection and scoring                                             *)

detect_port_scan(r) == r.result \cap {"port_table", "open_port"} # {}
detect_service_identification(r) == "service_banner" \in r.result
detect_shell_access(r) == "shell_prompt" \in r.result
detect_attack_blocked(r) == "drop_rule" \in r.result
detect_ip_blocked(r) == "ban_notice" \in r.result
detect_service_down(r) == "service_inactive" \in r.result

\* award_points that forgets the events row.
award_points_NoEvent(s, team, points, event_type, rid) ==
    [game |-> update_score(s.game, team, points), events |-> s.events]

\* award_points whose points depend on how often scoring has run.
award_points_Drift(s, team, points, event_type, rid) ==
    [game |-> update_score(s.game, team, points + Len(score_runs) - 1),
     events |-> record_event(s.events, rid, event_type, team,
                             points + Len(score_runs) - 1)]

\* award_points that keeps a score from going below zero.
award_points_Clamped(s, team, points, event_type, rid) ==
    LET g == update_score(s.game, team, points)
    IN  [game |-> [g EXCEPT !.red_score = IF @ < 0 THEN 0 ELSE @,
                            !.blue_score = IF @ < 0 THEN 0 ELSE @],
         events |-> record_event(s.events, rid, event_type, team, points)]

\* award_points that credits the other side's score.
award_points_WrongSide(s, team, points, event_type, rid) ==
    [game |-> update_score(s.game, IF team = "red" THEN "blue" ELSE "red", points),
     events |-> record_event(s.events, rid, event_type, team, points)]

\* s = [game, events]: the two tables award_points writes.
award_points(s, team, points, event_type, rid) ==
    [game |-> update_score(s.game, team, points),
     events |-> record_event(s.events, rid, event_type, team, points)]

\* evaluate_round that returns after its first award.
evaluate_round_Partial(s, rid, red, blue) ==
    IF detect_port_scan(red)
    THEN award_points(s, "red", 10, "port_scan_complete", rid)
    ELSE IF detect_attack_blocked(blue)
    THEN award_points(s, "blue", 50, "attack_blocked", rid)
    ELSE s

\* evaluate_round that awards a port scan once per matching cue.
evaluate_round_PerCue(s, rid, red, blue) ==
    LET s1 == IF "port_table" \in red.result
              THEN award_points(s, "red", 10, "port_scan_complete", rid) ELSE s
        s2 == IF "open_port" \in red.result
              THEN award_points(s1, "red", 10, "port_scan_complete", rid) ELSE s1
    IN  s2

AlreadyAwarded(s, team, event_type) ==
    \E i \in 1..Len(s.events) :
        s.events[i].team = team /\ s.events[i].event_type = event_type

\* evaluate_round that never awards a kind the game has already seen.
evaluate_round_GlobalDedup(s, rid, red, blue) ==
    LET s1 == IF detect_port_scan(red) /\ ~AlreadyAwarded(s, "red", "port_scan_complete")
              THEN award_points(s, "red", 10, "port_scan_complete", rid) ELSE s
        s2 == IF detect_attack_blocked(blue) /\ ~AlreadyAwarded(s1, "blue", "attack_blocked")
              THEN award_points(s1, "blue", 50, "attack_blocked", rid) ELSE s1
    IN  s2

evaluate_round(s, rid, red, blue) ==
    LET s1 == IF detect_port_scan(red)
              THEN award_points(s, "red", 10, "port_scan_complete", rid) ELSE s
        s2 == IF detect_service_identification(red)
              THEN award_points(s1, "red", 15, "service_identified", rid) ELSE s1
        s3 == IF detect_shell_access(red)
              THEN award_points(s2, "red", 100, "shell_access_gained", rid) ELSE s2
        s4 == IF detect_attack_blocked(blue)
              THEN award_points(s3, "blue", 50, "attack_blocked", rid) ELSE s3
        s5 == IF detect_ip_blocked(blue)
              THEN award_points(s4, "blue", 75, "attacker_ip_banned", rid) ELSE s4
        s6 == IF detect_service_down(blue)
              THEN award_points(s5, "blue", -50, "service_down", rid) ELSE s5
    IN  s6

----------------------------------------------------------------------------
(* Game phases                                                             *)

MaxPhaseRound == 32

\* Phase table whose first range runs one round too far.
PhaseRanges_Off ==
    << [phase |-> "reconnaissance", first |-> 1, last |-> 6],
       [phase |-> "initial_access", first |-> 7, last |-> 15],
       [phase |-> "privilege_escalation", first |-> 16, last |-> 25],
       [phase |-> "mission_completion", first |-> 26, last |-> 30] >>

\* Phase 1: Reconnaissance (Rounds 1-5) ... Phase 4: Mission Completion
\* (Rounds 26-30)
PhaseRanges ==
    << [phase |-> "reconnaissance", first |-> 1, last |-> 5],
       [phase |-> "initial_access", first |-> 6, last |-> 15],
       [phase |-> "privilege_escalation", first |-> 16, last |-> 25],
       [phase |-> "mission_completion", first |-> 26, last |-> 30] >>

\* get_current_phase that knows no phase outside the table.
get_current_phase_Strict(n) ==
    LET hit == { i \in 1..Len(PhaseRanges) :
                    PhaseRanges[i].first <= n /\ n <= PhaseRanges[i].last }
    IN  IF hit # {} THEN PhaseRanges[CHOOSE i \in hit : TRUE].phase
        ELSE "unknown"

\* the phase of round n: its range's label, the last label past the table
get_current_phase(n) ==
    LET hit == { i \in 1..Len(PhaseRanges) :
                    PhaseRanges[i].first <= n /\ n <= PhaseRanges[i].last }
    IN  IF hit # {} THEN PhaseRanges[CHOOSE i \in hit : TRUE].phase
        ELSE PhaseRanges[Len(PhaseRanges)].phase

\* The six checks of evaluate_round, in the order it makes them.
Classifiers ==
    << [team |-> "red", points |-> 10, event_type |-> "port_scan_complete"],
       [team |-> "red", points |-> 15, event_type |-> "service_identified"],
       [team |-> "red", points |-> 100, event_type |-> "shell_access_gained"],
       [team |-> "blue", points |-> 50, event_type |-> "attack_blocked"],
       [team |-> "blue", points |-> 75, event_type |-> "attacker_ip_banned"],
       [team |-> "blue", points |-> -50, event_type |-> "service_down"] >>

Detects(c, red, blue) ==
    \/ c.event_type = "port_scan_complete" /\ detect_port_scan(red)
    \/ c.event_type = "service_identified" /\ detect_service_identification(red)
    \/ c.event_type = "shell_access_gained" /\ detect_shell_access(red)
    \/ c.event_type = "attack_blocked" /\ detect_attack_blocked(blue)
    \/ c.event_type = "attacker_ip_banned" /\ detect_ip_blocked(blue)
    \/ c.event_type = "service_down" /\ detect_service_down(blue)

\* the checks of evaluate_round made in the order given by order[1..k]
RECURSIVE evaluate_in_order(_, _, _, _, _, _)
evaluate_in_order(order, k, s, rid, red, blue) ==
    IF k = 0 THEN s
    ELSE LET before == evaluate_in_order(order, k - 1, s, rid, red, blue)
             c == Classifiers[order[k]]
         IN  IF Detects(c, red, blue)
             THEN award_points(before, c.team, c.points, c.event_type, rid)
             ELSE before

----------------------------------------------------------------------------
(* Game-over predicate and end of game                                     *)

TerminalEvent == [red |-> "data_exfiltration", blue |-> "recovery_complete"]

TerminalFired(team) ==
    \E i \in 1..Len(events) :
        events[i].team = team /\ events[i].event_type = TerminalEvent[team]

check_game_over ==
    \/ round_number >= max_rounds
    \/ \E t \in Teams : TerminalFired(t)
    \/ abort_signal

FirstTerminal ==
    LET idx == { i \in 1..Len(events) :
                    events[i].event_type = TerminalEvent[events[i].team] }
    IN  IF idx = {} THEN "none"
        ELSE events[CHOOSE i \in idx : \A j \in idx : i <= j].team

end_game(g) ==
    [g EXCEPT !.status = IF abort_signal THEN "aborted" ELSE "completed",
              !.winner = FirstTerminal,
              !.ended = TRUE]

----------------------------------------------------------------------------
(* Turns                                                                   *)

execute_red_team_turn(decision, result) ==
    [action |-> decision.command,
     result |-> result.stdout \cup result.stderr,
     success |-> (result.exit_code = 0),
     phase |-> IF decision.phase = "absent" THEN "unknown" ELSE decision.phase]

\* int((time.time() - start_time) * 1000) of a command that was sent: one
\* representative duration (the clock is not part of the model)
ElapsedMs == {1}

execute_blue_team_turn(defense, result, execution_time) ==
    [action |-> defense.defensive_action,
     result |-> result.stdout \cup result.stderr,
     success |-> (result.exit_code = 0),
     phase |-> "-",
     execution_time_ms |-> execution_time]

----------------------------------------------------------------------------
Init ==
    /\ pc = "loop"
    /\ max_rounds \in 0..MaxRounds
    /\ round_number = 0
    /\ game = [red_score |-> 0, blue_score |-> 0, status |-> "running",
               winner |-> "null", ended |-> FALSE]
    /\ rounds = << >>
    /\ events = << >>
    /\ red_result = NoTurn
    /\ blue_result = NoTurn
    /\ round_id = 0
    /\ last_exec = NoExec
    /\ dispatched = {}
    /\ sink_faults = 0
    /\ exception = "none"
    /\ abort_signal = FALSE
    /\ in_flight = {}
    /\ pending = NoPending
    /\ abort_at = NotAborted
    /\ phase_log = << >>
    /\ score_runs = << >>
    /\ probe = NoProbe
    /\ DashInit

\* LoopEnter that advances the round counter twice.
LoopEnter_Skip ==
    /\ pc = "loop"
    /\ round_number < max_rounds
    /\ round_number' = round_number + 2
    /\ phase_log' = Append(phase_log, << round_number', get_current_phase(round_number') >>)
    /\ pc' = "red_turn"
    /\ red_result' = NoTurn
    /\ blue_result' = NoTurn
    /\ last_exec' = NoExec
    /\ UNCHANGED << max_rounds, game, rounds, events, round_id, dispatched,
                    sink_faults, exception, abort_signal,
                    in_flight, pending, abort_at, score_runs,
                    probe, dashVars >>

\* while self.round_number < max_rounds: self.round_number += 1
LoopEnter ==
    /\ pc = "loop"
    /\ round_number < max_rounds
    /\ round_number' = round_number + 1
    /\ phase_log' = Append(phase_log, << round_number', get_current_phase(round_number') >>)
    /\ pc' = "red_turn"
    /\ red_result' = NoTurn
    /\ blue_result' = NoTurn
    /\ last_exec' = NoExec
    /\ UNCHANGED << max_rounds, game, rounds, events, round_id, dispatched,
                    sink_faults, exception, abort_signal,
                    in_flight, pending, abort_at, score_runs,
                    probe, dashVars >>

\* the while condition is false: fall through to end_game
LoopExit ==
    /\ pc = "loop"
    /\ ~(round_number < max_rounds)
    /\ pc' = "end_game"
    /\ UNCHANGED << max_rounds, round_number, game, rounds, events, red_result,
                    blue_result, round_id, last_exec, dispatched, sink_faults,
                    exception, abort_signal,
                    in_flight, pending, abort_at, phase_log, score_runs,
                    probe, dashVars >>

\* decision['reasoning'] / decision['command'] on a payload without them
RedDecisionFault ==
    /\ pc = "red_turn"
    /\ Malformed \in RedDecisions
    /\ pc' = "crashed"
    /\ exception' = "decision"
    /\ UNCHANGED << max_rounds, round_number, game, rounds, events, red_result,
                    blue_result, round_id, last_exec, dispatched, sink_faults,
                    abort_signal,
                    in_flight, pending, abort_at, phase_log, score_runs,
                    probe, dashVars >>

\* RedDispatch that returns to the loop without waiting for exec_run.
RedDispatch_NoWait ==
    /\ pc = "red_turn"
    /\ \E decision \in RedDecisions \ {Malformed} :
         /\ pending' = decision
         /\ dispatched' = dispatched \cup
                 {<< round_number, "red", decision.command >>}
    /\ in_flight' = in_flight \cup {"red-kali"}
    /\ pc' = "blue_turn"
    /\ UNCHANGED << max_rounds, round_number, game, rounds, events, red_result,
                    blue_result, round_id, last_exec, sink_faults, exception,
                    abort_signal, abort_at, phase_log, score_runs,
                    probe, dashVars >>

\* decide_action returned a decision; exec_run is called and blocks
RedDispatch ==
    /\ pc = "red_turn"
    /\ \E decision \in RedDecisions \ {Malformed} :
         /\ pending' = decision
         /\ dispatched' = dispatched \cup
                 {<< round_number, "red", decision.command >>}
    /\ in_flight' = in_flight \cup {"red-kali"}
    /\ pc' = "red_exec"
    /\ UNCHANGED << max_rounds, round_number, game, rounds, events, red_result,
                    blue_result, round_id, last_exec, sink_faults, exception,
                    abort_signal, abort_at, phase_log, score_runs,
                    probe, dashVars >>

\* exec_run returns or raises; the turn's result dict is built
RedTurn ==
    /\ pc = "red_exec"
    /\ \E outcome \in RedOutcomes :
         LET result == execute_in_container("red-kali", pending.command, outcome)
         IN  /\ last_exec' = [container |-> "red-kali",
                              command |-> pending.command,
                              outcome |-> outcome, result |-> result]
             /\ red_result' = execute_red_team_turn(pending, result)
    /\ in_flight' = in_flight \ {"red-kali"}
    /\ pending' = NoPending
    /\ pc' = "blue_turn"
    /\ UNCHANGED << max_rounds, round_number, game, rounds, events, blue_result,
                    round_id, dispatched, sink_faults, exception, abort_signal,
                    abort_at, phase_log, score_runs,
                    probe, dashVars >>

BlueDecisionFault ==
    /\ pc = "blue_turn"
    /\ Malformed \in BlueDecisions
    /\ pc' = "crashed"
    /\ exception' = "decision"
    /\ UNCHANGED << max_rounds, round_number, game, rounds, events, red_result,
                    blue_result, round_id, last_exec, dispatched, sink_faults,
                    abort_signal,
                    in_flight, pending, abort_at, phase_log, score_runs,
                    probe, dashVars >>

\* BlueTurnNone that sends 'none' to the container as a command.
BlueTurnNone_Exec ==
    /\ pc = "blue_turn"
    /\ \E defense \in BlueDecisions \ {Malformed} :
         /\ defense.defensive_action = CmdNone
         /\ dispatched' = dispatched \cup
                 {<< round_number, "blue", defense.defensive_action >>}
         /\ blue_result' = execute_blue_team_turn(defense,
                              [exit_code |-> 127, stdout |-> {},
                               stderr |-> {"not_found"}], 1)
    /\ pc' = "log_round"
    /\ UNCHANGED << max_rounds, round_number, game, rounds, events, red_result,
                    round_id, last_exec, sink_faults, exception,
                    abort_signal,
                    in_flight, pending, abort_at, phase_log, score_runs,
                    probe, dashVars >>

\* defensive_action = 'none': nothing is executed
BlueTurnNone ==
    /\ pc = "blue_turn"
    /\ \E defense \in BlueDecisions \ {Malformed} :
         /\ defense.defensive_action = CmdNone
         /\ blue_result' = execute_blue_team_turn(defense,
                              [exit_code |-> 0, stdout |-> {}, stderr |-> {}], 0)
    /\ pc' = "log_round"
    /\ UNCHANGED << max_rounds, round_number, game, rounds, events, red_result,
                    round_id, last_exec, dispatched, sink_faults, exception,
                    abort_signal,
                    in_flight, pending, abort_at, phase_log, score_runs,
                    probe, dashVars >>

\* decide_defense returned an action other than 'none'; exec_run blocks
BlueDispatch ==
    /\ pc = "blue_turn"
    /\ \E defense \in BlueDecisions \ {Malformed} :
         /\ defense.defensive_action # CmdNone
         /\ pending' = defense
         /\ dispatched' = dispatched \cup
                 {<< round_number, "blue", defense.defensive_action >>}
    /\ in_flight' = in_flight \cup {"blue-target"}
    /\ pc' = "blue_exec"
    /\ UNCHANGED << max_rounds, round_number, game, rounds, events, red_result,
                    blue_result, round_id, last_exec, sink_faults, exception,
                    abort_signal, abort_at, phase_log, score_runs,
                    probe, dashVars >>

BlueTurn ==
    /\ pc = "blue_exec"
    /\ \E outcome \in BlueOutcomes, execution_time \in ElapsedMs :
         LET result == execute_in_container("blue-target",
                                            pending.defensive_action, outcome)
         IN  /\ last_exec' = [container |-> "blue-target",
                              command |-> pending.defensive_action,
                              outcome |-> outcome, result |-> result]
             /\ blue_result' = execute_blue_team_turn(pending, result,
                                                      execution_time)
    /\ in_flight' = in_flight \ {"blue-target"}
    /\ pending' = NoPending
    /\ pc' = "log_round"
    /\ UNCHANGED << max_rounds, round_number, game, rounds, events, red_result,
                    round_id, dispatched, sink_faults, exception, abort_signal,
                    abort_at, phase_log, score_runs,
                    probe, dashVars >>

\* round_id = self.db.log_round(...) returns
LogRound ==
    /\ pc = "log_round"
    /\ sink_faults' = 0
    /\ rounds' = log_round(rounds, round_number, red_result, blue_result)
    /\ round_id' = Len(rounds) + 1
    /\ pc' = "evaluate"
    /\ UNCHANGED << max_rounds, round_number, game, events, red_result,
                    blue_result, last_exec, dispatched, exception,
                    abort_signal,
                    in_flight, pending, abort_at, phase_log, score_runs,
                    probe, dashVars >>

\* self.db.log_round(...) raises: nothing in run_game_loop catches it
LogRoundFails ==
    /\ pc = "log_round"
    /\ \E f \in 1..MaxSinkFaults : sink_faults' = f
    /\ pc' = "crashed"
    /\ exception' = "persistence"
    /\ UNCHANGED << max_rounds, round_number, game, rounds, events, red_result,
                    blue_result, round_id, last_exec, dispatched, abort_signal,
                    in_flight, pending, abort_at, phase_log, score_runs,
                    probe, dashVars >>

EvaluateRound ==
    /\ pc = "evaluate"
    /\ LET s == evaluate_round([game |-> game, events |-> events], round_id,
                               red_result, blue_result)
       IN  /\ game' = s.game
           /\ events' = s.events
    /\ pc' = "check_game_over"
    /\ UNCHANGED << max_rounds, round_number, rounds, red_result, blue_result,
                    round_id, last_exec, dispatched, sink_faults, exception,
                    abort_signal,
                    in_flight, pending, abort_at, phase_log, score_runs,
                    probe, dashVars >>

\* if self.check_game_over(): break
GameOver ==
    /\ pc = "check_game_over"
    /\ check_game_over
    /\ pc' = "end_game"
    /\ UNCHANGED << max_rounds, round_number, game, rounds, events, red_result,
                    blue_result, round_id, last_exec, dispatched, sink_faults,
                    exception, abort_signal,
                    in_flight, pending, abort_at, phase_log, score_runs,
                    probe, dashVars >>

\* time.sleep(2), back to the while test
NextRound ==
    /\ pc = "check_game_over"
    /\ ~check_game_over
    /\ pc' = "loop"
    /\ UNCHANGED << max_rounds, round_number, game, rounds, events, red_result,
                    blue_result, round_id, last_exec, dispatched, sink_faults,
                    exception, abort_signal,
                    in_flight, pending, abort_at, phase_log, score_runs,
                    probe, dashVars >>

\* EndGame that goes back to the while test after end_game.
EndGame_NoStop ==
    /\ pc = "end_game"
    /\ game' = end_game(game)
    /\ pc' = "loop"
    /\ UNCHANGED << max_rounds, round_number, rounds, events, red_result,
                    blue_result, round_id, last_exec, dispatched, sink_faults,
                    exception, abort_signal,
                    in_flight, pending, abort_at, phase_log, score_runs,
                    probe, dashVars >>

\* EndGame that returns without calling end_game.
EndGame_Skip ==
    /\ pc = "end_game"
    /\ pc' = "done"
    /\ UNCHANGED << max_rounds, round_number, game, rounds, events, red_result,
                    blue_result, round_id, last_exec, dispatched, sink_faults,
                    exception, abort_signal,
                    in_flight, pending, abort_at, phase_log, score_runs,
                    probe, dashVars >>

\* await self.end_game(): the last statement of run_game_loop
EndGame ==
    /\ pc = "end_game"
    /\ game' = end_game(game)
    /\ pc' = "done"
    /\ UNCHANGED << max_rounds, round_number, rounds, events, red_result,
                    blue_result, round_id, last_exec, dispatched, sink_faults,
                    exception, abort_signal,
                    in_flight, pending, abort_at, phase_log, score_runs,
                    probe, dashVars >>

\* an operator asks for the game to stop
AbortSignal ==
    /\ ~abort_signal
    /\ abort_signal' = TRUE
    /\ abort_at' = [at |-> LoopPosition(pc), round |-> round_number]
    /\ UNCHANGED << pc, max_rounds, round_number, game, rounds, events,
                    red_result, blue_result, round_id, last_exec, dispatched,
                    sink_faults, exception, in_flight, pending, phase_log, score_runs,
                    probe, dashVars >>

Next ==
    \/ LoopEnter
    \/ LoopExit
    \/ RedDecisionFault
    \/ RedDispatch
    \/ RedTurn
    \/ BlueDecisionFault
    \/ BlueTurnNone
    \/ BlueDispatch
    \/ BlueTurn
    \/ LogRound
    \/ LogRoundFails
    \/ EvaluateRound
    \/ GameOver
    \/ NextRound
    \/ EndGame
    \/ AbortSignal

Spec == Init /\ [][Next]_vars

----------------------------------------------------------------------------
(* get_current_phase on its own: any round number, two calls with other    *)
(* work between them.                                                      *)

PhaseInit ==
    /\ pc = "phase_call"
    /\ round_number \in 1..MaxPhaseRound
    /\ max_rounds = MaxPhaseRound
    /\ \E r \in {0, 10, 100}, b \in {0, 50, -50} :
         game = [red_score |-> r, blue_score |-> b, status |-> "running",
                 winner |-> "null", ended |-> FALSE]
    /\ rounds = << >>
    /\ events = << >>
    /\ red_result = NoTurn
    /\ blue_result = NoTurn
    /\ round_id = 0
    /\ last_exec = NoExec
    /\ dispatched = {}
    /\ sink_faults = 0
    /\ exception = "none"
    /\ abort_signal = FALSE
    /\ in_flight = {}
    /\ pending = NoPending
    /\ abort_at = NotAborted
    /\ phase_log = << >>
    /\ score_runs = << >>
    /\ probe = NoProbe
    /\ DashInit

\* self.get_current_phase()
GetCurrentPhase ==
    /\ pc \in {"phase_call", "phase_recall"}
    /\ phase_log' = Append(phase_log, << round_number, get_current_phase(round_number) >>)
    /\ pc' = IF pc = "phase_call" THEN "phase_between" ELSE "phase_done"
    /\ UNCHANGED << max_rounds, round_number, game, rounds, events, red_result,
                    blue_result, round_id, last_exec, dispatched, sink_faults,
                    exception, abort_signal, in_flight, pending, abort_at,
                    score_runs,
                    probe, dashVars >>

\* the rest of the game goes on between two calls: scores move
PhaseBetween ==
    /\ pc = "phase_between"
    /\ \E team \in Teams, points \in {10, -50} :
         game' = update_score(game, team, points)
    /\ pc' = "phase_recall"
    /\ UNCHANGED << max_rounds, round_number, rounds, events, red_result,
                    blue_result, round_id, last_exec, dispatched, sink_faults,
                    exception, abort_signal, in_flight, pending, abort_at,
                    phase_log, score_runs,
                    probe, dashVars >>

PhaseNext ==
    \/ GetCurrentPhase
    \/ PhaseBetween

PhaseSpec == PhaseInit /\ [][PhaseNext]_vars

----------------------------------------------------------------------------
(* evaluate_round on its own: any turn results, run twice from the same    *)
(* game state.                                                             *)

RedCues == {"open_port", "service_banner", "shell_prompt"}
BlueCues == {"drop_rule", "ban_notice", "service_inactive"}

ScoreInit ==
    /\ pc = "score_first"
    /\ round_number = 1
    /\ max_rounds = 1
    /\ \E r \in {0, 10}, b \in {0, 25} :
         game = [red_score |-> r, blue_score |-> b, status |-> "running",
                 winner |-> "null", ended |-> FALSE]
    /\ rounds = << >>
    /\ events = << >>
    /\ \E cues \in SUBSET RedCues :
         red_result = [action |-> CmdScan, result |-> cues, success |-> TRUE,
                       phase |-> "reconnaissance"]
    /\ \E cues \in SUBSET BlueCues :
         blue_result = [action |-> CmdBlock, result |-> cues, success |-> TRUE,
                        phase |-> "-"]
    /\ round_id = 1
    /\ last_exec = NoExec
    /\ dispatched = {}
    /\ sink_faults = 0
    /\ exception = "none"
    /\ abort_signal = FALSE
    /\ in_flight = {}
    /\ pending = NoPending
    /\ abort_at = NotAborted
    /\ phase_log = << >>
    /\ score_runs = << [game |-> game, events |-> events] >>
    /\ probe = NoProbe
    /\ DashInit

\* self.evaluate_round(round_id, red_result, blue_result)
ScoreRun ==
    /\ pc \in {"score_first", "score_second"}
    /\ LET s == evaluate_round([game |-> game, events |-> events], round_id,
                               red_result, blue_result)
       IN  /\ game' = s.game
           /\ events' = s.events
           /\ score_runs' = Append(score_runs, s)
    /\ pc' = IF pc = "score_first" THEN "score_rewind" ELSE "score_done"
    /\ UNCHANGED << max_rounds, round_number, rounds, red_result, blue_result,
                    round_id, last_exec, dispatched, sink_faults, exception,
                    abort_signal, in_flight, pending, abort_at, phase_log,
                    probe, dashVars >>

\* the second run starts from the game state the first one started from
ScoreRewind ==
    /\ pc = "score_rewind"
    /\ game' = score_runs[1].game
    /\ events' = score_runs[1].events
    /\ pc' = "score_second"
    /\ UNCHANGED << max_rounds, round_number, rounds, red_result, blue_result,
                    round_id, last_exec, dispatched, sink_faults, exception,
                    abort_signal, in_flight, pending, abort_at, phase_log,
                    score_runs,
                    probe, dashVars >>

ScoreNext ==
    \/ ScoreRun
    \/ ScoreRewind

ScoreSpec == ScoreInit /\ [][ScoreNext]_vars

----------------------------------------------------------------------------
(* execute_in_container on its own: output of any size.                    *)

MAX_OUTPUT_SIZE == 1000000

\* a stream of n bytes; the empty stream is the empty text
Stream(n) == IF n = 0 THEN {} ELSE {[bytes |-> n]}

StreamLength(stream) == IF stream = {} THEN 0 ELSE (CHOOSE c \in stream : TRUE).bytes

StreamSizes == {0, 1, MAX_OUTPUT_SIZE, MAX_OUTPUT_SIZE + 1}

ExecOutcomes ==
    { [kind |-> k] : k \in {"not_found", "transport"} }
    \cup { [kind |-> "ran", exit_code |-> e, stdout |-> Stream(o),
            stderr |-> Stream(r), decodable |-> d] :
             e \in {0, 1}, o \in StreamSizes, r \in StreamSizes, d \in BOOLEAN }

ExecInit ==
    /\ pc = "exec_call"
    /\ max_rounds = 0
    /\ round_number = 0
    /\ game = [red_score |-> 0, blue_score |-> 0, status |-> "running",
               winner |-> "null", ended |-> FALSE]
    /\ rounds = << >>
    /\ events = << >>
    /\ red_result = NoTurn
    /\ blue_result = NoTurn
    /\ round_id = 0
    /\ last_exec = NoExec
    /\ dispatched = {}
    /\ sink_faults = 0
    /\ exception = "none"
    /\ abort_signal = FALSE
    /\ in_flight = {}
    /\ pending = NoPending
    /\ abort_at = NotAborted
    /\ phase_log = << >>
    /\ score_runs = << >>
    /\ \E container \in {"red-kali", "blue-target"}, command \in {CmdScan, CmdBlock},
          outcome \in ExecOutcomes :
         probe = [call |-> "execute_in_container", container |-> container,
                  command |-> command, outcome |-> outcome]
    /\ DashInit

\* self.execute_in_container(container, command) returns
ExecuteInContainer ==
    /\ pc = "exec_call"
    /\ last_exec' = [container |-> probe.container, command |-> probe.command,
                     outcome |-> probe.outcome,
                     result |-> execute_in_container(probe.container,
                                                     probe.command, probe.outcome)]
    /\ pc' = "exec_done"
    /\ UNCHANGED << max_rounds, round_number, game, rounds, events, red_result,
                    blue_result, round_id, dispatched, sink_faults, exception,
                    abort_signal, in_flight, pending, abort_at, phase_log,
                    score_runs, probe, dashVars >>

ExecNext ==
    \/ ExecuteInContainer

ExecSpec == ExecInit /\ [][ExecNext]_vars

----------------------------------------------------------------------------
(* The history window of a turn: get_recent_context and the prompt's       *)
(* history[-10:], for any number of earlier rounds.                        *)

MaxHistoryRound == 13

\* one side's turn as stored with a round
TurnOf(row, team) == [game_id |-> row.game_id, round_number |-> row.round_number, team |-> team]

\* rows 1..n of one game, in the order they were logged
GameRows(game_id, n) == [i \in 1..n |-> [game_id |-> game_id, round_number |-> i]]

\* history[-k:]
LastOf(history, k) ==
    IF Len(history) <= k THEN history
    ELSE SubSeq(history, Len(history) - k + 1, Len(history))

RECURSIVE RowsOfGame(_, _)
RowsOfGame(tbl, game_id) ==
    IF tbl = << >> THEN << >>
    ELSE IF Head(tbl).game_id = game_id
         THEN << Head(tbl) >> \o RowsOfGame(Tail(tbl), game_id)
         ELSE RowsOfGame(Tail(tbl), game_id)

\* get_recent_context that forgets the game filter.
get_recent_context_AnyGame(tbl, game_id, team, limit) ==
    LET turns == [i \in 1..Len(tbl) |-> TurnOf(tbl[i], team)]
    IN  LastOf(turns, limit)

\* the side's turns of the game's logged rounds, oldest first, last `limit`
get_recent_context(tbl, game_id, team, limit) ==
    LET mine == RowsOfGame(tbl, game_id)
        turns == [i \in 1..Len(mine) |-> TurnOf(mine[i], team)]
    IN  LastOf(turns, limit)

HistoryInit ==
    /\ pc = "history_call"
    /\ round_number \in 1..MaxHistoryRound
    /\ max_rounds = MaxHistoryRound
    /\ game = [red_score |-> 0, blue_score |-> 0, status |-> "running",
               winner |-> "null", ended |-> FALSE]
    /\ \E other \in 0..2, older \in BOOLEAN :
         rounds = IF older
                  THEN GameRows(2, other) \o GameRows(1, round_number - 1)
                  ELSE GameRows(1, round_number - 1) \o GameRows(2, other)
    /\ events = << >>
    /\ red_result = NoTurn
    /\ blue_result = NoTurn
    /\ round_id = 0
    /\ last_exec = NoExec
    /\ dispatched = {}
    /\ sink_faults = 0
    /\ exception = "none"
    /\ abort_signal = FALSE
    /\ in_flight = {}
    /\ pending = NoPending
    /\ abort_at = NotAborted
    /\ phase_log = << >>
    /\ score_runs = << >>
    /\ \E team \in Teams : probe = [call |-> "get_recent_context", team |-> team]
    /\ DashInit

\* get_recent_context called with the other side's name.
ReadRecent_OtherTeam ==
    /\ pc = "history_call"
    /\ probe' = [call |-> "decide", team |-> probe.team,
                 history |-> get_recent_context(rounds, 1,
                                 IF probe.team = "red" THEN "blue" ELSE "red", 10)]
    /\ pc' = "history_prompt"
    /\ UNCHANGED << max_rounds, round_number, game, rounds, events, red_result,
                    blue_result, round_id, last_exec, dispatched, sink_faults,
                    exception, abort_signal, in_flight, pending, abort_at,
                    phase_log, score_runs, dashVars >>

\* history = self.db.get_recent_context(game_id, team, limit=10)
ReadRecent ==
    /\ pc = "history_call"
    /\ probe' = [call |-> "decide", team |-> probe.team,
                 history |-> get_recent_context(rounds, 1, probe.team, 10)]
    /\ pc' = "history_prompt"
    /\ UNCHANGED << max_rounds, round_number, game, rounds, events, red_result,
                    blue_result, round_id, last_exec, dispatched, sink_faults,
                    exception, abort_signal, in_flight, pending, abort_at,
                    phase_log, score_runs, dashVars >>

\* build_decision_prompt / build_defense_prompt: format_history(history[-10:])
BuildPrompt ==
    /\ pc = "history_prompt"
    /\ probe' = [call |-> "prompt", team |-> probe.team,
                 window |-> LastOf(probe.history, 10)]
    /\ pc' = "history_done"
    /\ UNCHANGED << max_rounds, round_number, game, rounds, events, red_result,
                    blue_result, round_id, last_exec, dispatched, sink_faults,
                    exception, abort_signal, in_flight, pending, abort_at,
                    phase_log, score_runs, dashVars >>

HistoryNext ==
    \/ ReadRecent
    \/ BuildPrompt

HistorySpec == HistoryInit /\ [][HistoryNext]_vars

----------------------------------------------------------------------------
(* validate_command on its own, for short commands over a few characters   *)
(* and a list of longer ones.                                              *)

MaxCommandLen == 4

CommandChars == {"d", "n", "c", " "}

ForkBomb == << ":", "(", ")", "{", " ", ":", "|", ":", "&", " ", "}", ";", ":" >>

LongCommands ==
    { CmdScan, CmdWipe, CmdNone, CmdBlock, ForkBomb,
      CmdWipe \o << "t", "m", "p" >>,
      << "s", "u", "d", "o", " " >> \o CmdWipe,
      << "r", "m", " ", "-", "r", "f", " ", "." >>,
      << "r", "m", " ", "-", "r", " ", "/" >>,
      << "e", "c", "h", "o", " " >> \o ForkBomb \o << " ", "&" >>,
      << ":", "(", ")", "{", " ", ":", "|", ":", " ", "}", ";", ":" >>,
      << "n", "m", "a", "p", " ", "-", "-", "a", "d", "d", "r" >>,
      << "l", "s", " ", "-", "l", "a" >> }

Commands ==
    LongCommands \cup UNION { [1..k -> CommandChars] : k \in 0..MaxCommandLen }

ValidateInit ==
    /\ pc = "validate_call"
    /\ max_rounds = 1
    /\ round_number = 0
    /\ game = [red_score |-> 0, blue_score |-> 0, status |-> "running",
               winner |-> "null", ended |-> FALSE]
    /\ rounds = << >>
    /\ events = << >>
    /\ red_result = NoTurn
    /\ blue_result = NoTurn
    /\ round_id = 0
    /\ last_exec = NoExec
    /\ dispatched = {}
    /\ sink_faults = 0
    /\ exception = "none"
    /\ abort_signal = FALSE
    /\ in_flight = {}
    /\ pending = NoPending
    /\ abort_at = NotAborted
    /\ phase_log = << >>
    /\ score_runs = << >>
    /\ \E command \in Commands :
         probe = [call |-> "validate_command", command |-> command]
    /\ DashInit

\* validate_command(command) returns
ValidateCommand ==
    /\ pc = "validate_call"
    /\ probe' = [call |-> "validated", command |-> probe.command,
                 result |-> validate_command(probe.command)]
    /\ pc' = "validate_done"
    /\ UNCHANGED << max_rounds, round_number, game, rounds, events, red_result,
                    blue_result, round_id, last_exec, dispatched, sink_faults,
                    exception, abort_signal, in_flight, pending, abort_at,
                    phase_log, score_runs, dashVars >>

ValidateNext == ValidateCommand

ValidateSpec == ValidateInit /\ [][ValidateNext]_vars

----------------------------------------------------------------------------
(* The dashboard: App's view state and the socket effects of GameDetail    *)
(* and LiveMonitor. A state change re-renders; React then runs the cleanup *)
(* of an effect whose component unmounted or whose deps changed, then the  *)
(* new effect, before the next event is handled.                           *)

\* the JSX conditions of App's container
Rendered ==
    { p \in {"GameList", "GameDetail", "Statistics", "LiveMonitor"} :
        \/ p = "GameList" /\ view = "games" /\ selectedGame = 0
        \/ p = "GameDetail" /\ view = "detail" /\ selectedGame # 0
        \/ p = "Statistics" /\ view = "stats"
        \/ p = "LiveMonitor" /\ view = "live" }

\* the component with a socket effect that is mounted, and the effect's deps
Deps ==
    IF "GameDetail" \in Rendered
    THEN [component |-> "GameDetail", game |-> selectedGame, socket |-> socket]
    ELSE IF "LiveMonitor" \in Rendered
    THEN [component |-> "LiveMonitor", game |-> liveSelected, socket |-> socket]
    ELSE NoEffect

\* the effect body passed its `if`: it joined and returned a cleanup
Subscribed(e) == e.component # "-" /\ e.socket /\ e.game # 0

\* the events a component listens to
Listens(component) ==
    IF component = "GameDetail" THEN {"game_update", "round_complete"}
    ELSE SocketEvents

Stale == effect # Deps

DashGameInit ==
    /\ pc = "dashboard"
    /\ max_rounds = 1
    /\ round_number = 0
    /\ game = [red_score |-> 0, blue_score |-> 0, status |-> "running",
               winner |-> "null", ended |-> FALSE]
    /\ rounds = << >>
    /\ events = << >>
    /\ red_result = NoTurn
    /\ blue_result = NoTurn
    /\ round_id = 0
    /\ last_exec = NoExec
    /\ dispatched = {}
    /\ sink_faults = 0
    /\ exception = "none"
    /\ abort_signal = FALSE
    /\ in_flight = {}
    /\ pending = NoPending
    /\ abort_at = NotAborted
    /\ phase_log = << >>
    /\ score_runs = << >>
    /\ probe = NoProbe
    /\ DashInit

\* App's mount effect: setSocket(newSocket)
setSocket ==
    /\ ~Stale
    /\ ~socket
    /\ socket' = TRUE
    /\ UNCHANGED << gameVars, probe, view, selectedGame, liveSelected, effect,
                    rooms, handlers >>

\* GameList's onSelectGame
handleSelectGame ==
    /\ ~Stale
    /\ "GameList" \in Rendered
    /\ \E gameId \in GameIds : selectedGame' = gameId
    /\ view' = "detail"
    /\ UNCHANGED << gameVars, probe, socket, liveSelected, effect, rooms,
                    handlers >>

\* GameDetail's onBack
handleBackToList ==
    /\ ~Stale
    /\ "GameDetail" \in Rendered
    /\ selectedGame' = 0
    /\ view' = "games"
    /\ UNCHANGED << gameVars, probe, socket, liveSelected, effect, rooms,
                    handlers >>

\* nav button Games: onClick={() => setView('games')}; a LiveMonitor that
\* unmounts loses its state
NavGames ==
    /\ ~Stale
    /\ view' = "games"
    /\ liveSelected' = 0
    /\ UNCHANGED << gameVars, probe, selectedGame, socket, effect, rooms,
                    handlers >>

\* nav button Statistics: onClick={() => setView('stats')}; a LiveMonitor that
\* unmounts loses its state
NavStats ==
    /\ ~Stale
    /\ view' = "stats"
    /\ liveSelected' = 0
    /\ UNCHANGED << gameVars, probe, selectedGame, socket, effect, rooms,
                    handlers >>

\* nav button Live Monitor: onClick={() => setView('live')}; a LiveMonitor that
\* unmounts loses its state
NavLive ==
    /\ ~Stale
    /\ view' = "live"
    /\ liveSelected' = liveSelected
    /\ UNCHANGED << gameVars, probe, selectedGame, socket, effect, rooms,
                    handlers >>

\* LiveMonitor's setSelectedGame: the select's onChange, or the auto-select
\* of fetchRunningGames
LiveSetSelectedGame ==
    /\ ~Stale
    /\ "LiveMonitor" \in Rendered
    /\ \E gameId \in GameIds : liveSelected' = gameId
    /\ UNCHANGED << gameVars, probe, view, selectedGame, socket, effect, rooms,
                    handlers >>

\* RunCleanup that drops the old effect without calling what it returned.
RunCleanup_NoLeave ==
    /\ Stale
    /\ effect # NoEffect
    /\ effect' = NoEffect
    /\ UNCHANGED << gameVars, probe, view, selectedGame, socket, liveSelected,
                    rooms, handlers >>

\* the function the effect returned: emit leave_game, socket.off(event)
RunCleanup ==
    /\ Stale
    /\ effect # NoEffect
    /\ IF Subscribed(effect)
       THEN /\ rooms' = [rooms EXCEPT ![effect.game] = @ - 1]
            /\ handlers' = [e \in SocketEvents |->
                              IF e \in Listens(effect.component) THEN 0
                              ELSE handlers[e]]
       ELSE UNCHANGED << rooms, handlers >>
    /\ effect' = NoEffect
    /\ UNCHANGED << gameVars, probe, view, selectedGame, socket, liveSelected >>

\* the effect body: if (socket) / if (selectedGame && socket): emit
\* join_game, socket.on(event, handler)
RunEffect ==
    /\ Stale
    /\ effect = NoEffect
    /\ IF Subscribed(Deps)
       THEN /\ rooms' = [rooms EXCEPT ![Deps.game] = @ + 1]
            /\ handlers' = [e \in SocketEvents |->
                              IF e \in Listens(Deps.component)
                              THEN handlers[e] + 1 ELSE handlers[e]]
       ELSE UNCHANGED << rooms, handlers >>
    /\ effect' = Deps
    /\ UNCHANGED << gameVars, probe, view, selectedGame, socket, liveSelected >>

DashNext ==
    \/ setSocket
    \/ handleSelectGame
    \/ handleBackToList
    \/ NavGames
    \/ NavStats
    \/ NavLive
    \/ LiveSetSelectedGame
    \/ RunCleanup
    \/ RunEffect

DashSpec == DashGameInit /\ [][DashNext]_vars

----------------------------------------------------------------------------
(* Derived quantities used by the properties                               *)

Score(team) == IF team = "red" THEN game.red_score ELSE game.blue_score

RECURSIVE EventSum(_, _)
EventSum(tbl, team) ==
    IF tbl = << >> THEN 0
    ELSE (IF Head(tbl).team = team THEN Head(tbl).points_awarded ELSE 0)
         + EventSum(Tail(tbl), team)

RECURSIVE RoundPointsSum(_, _)
RoundPointsSum(tbl, team) ==
    IF tbl = << >> THEN 0
    ELSE (IF team = "red" THEN Head(tbl).red_points_earned
                          ELSE Head(tbl).blue_points_earned)
         + RoundPointsSum(Tail(tbl), team)

\* rows of the rounds table that carry round number r
RoundRecords(r) == { i \in 1..Len(rounds) : rounds[i].round_number = r }

\* rows of the events table that belong to rounds row rid
EventRows(rid) == { i \in 1..Len(events) : events[i].round_id = rid }

AppliedKinds(r) ==
    { << events[i].team, events[i].event_type >> :
        i \in UNION { EventRows(rid) : rid \in RoundRecords(r) } }

DetectedKinds(red, blue) ==
    { k \in { << "red", "port_scan_complete" >>, << "red", "service_identified" >>,
              << "red", "shell_access_gained" >>, << "blue", "attack_blocked" >>,
              << "blue", "attacker_ip_banned" >>, << "blue", "service_down" >> } :
        \/ k[2] = "port_scan_complete" /\ detect_port_scan(red)
        \/ k[2] = "service_identified" /\ detect_service_identification(red)
        \/ k[2] = "shell_access_gained" /\ detect_shell_access(red)
        \/ k[2] = "attack_blocked" /\ detect_attack_blocked(blue)
        \/ k[2] = "attacker_ip_banned" /\ detect_ip_blocked(blue)
        \/ k[2] = "service_down" /\ detect_service_down(blue) }

\* the loop is past the scoring of round round_number, or has left the round
RoundOver ==
    /\ round_number >= 1
    /\ pc \in {"check_game_over", "loop", "end_game", "done", "crashed"}

\* round r has been started and the loop is past its log_round call
RoundFinished(r) ==
    \/ r < round_number
    \/ /\ r = round_number
       /\ pc \in {"evaluate", "check_game_over", "loop", "end_game", "done", "crashed"}

----------------------------------------------------------------------------
(* Properties                                                              *)

C2_RoundPointsEqualScore ==
    \A t \in Teams : RoundPointsSum(rounds, t) = Score(t)

\* C3: once the game's status has left 'running', the persisted round rows
\* carry exactly the round numbers 1..round_number, each once.
C3_RoundNumbersContiguous ==
    game.status # "running" =>
        /\ Len(rounds) = round_number
        /\ \A r \in 1..round_number : Cardinality(RoundRecords(r)) = 1
        /\ \A i \in 1..Len(rounds) : rounds[i].round_number \in 1..round_number

C3_Witness ==
    /\ game.status = "completed"
    /\ Len(rounds) = 2
    /\ ~rounds[1].red_success
    /\ rounds[2].red_success

\* C4: every round the loop has started and left, with a sandbox fault or a
\* decision fault or none (persistence faults aside), has exactly one
\* persisted round row.
C4_OneRecordPerStartedRound ==
    \A r \in 1..round_number :
        (RoundFinished(r) /\ exception # "persistence")
            => Cardinality(RoundRecords(r)) = 1

C6_SinkFailureAborts ==
    (exception = "persistence" /\ sink_faults >= 2) =>
        /\ game.status = "aborted"
        /\ ~ENABLED LoopEnter

\* C7: whenever the loop has stopped, for any sandbox faults, decision faults
\* and command outputs, the game is 'completed' or 'aborted' and at most
\* max_rounds rounds were played.
C7_LoopEndsCompletedOrAborted ==
    (pc \in {"done", "crashed"} /\ exception # "persistence") =>
        /\ game.status \in {"completed", "aborted"}
        /\ round_number <= max_rounds

\* C8: within one round and one side an event kind is awarded at most once,
\* and exactly once when the round's output implies it, however many cues
\* in the output imply it.
C8_KindOncePerRound ==
    /\ \A i, j \in 1..Len(events) :
          ( /\ events[i].round_id = events[j].round_id
            /\ events[i].team = events[j].team
            /\ events[i].event_type = events[j].event_type ) => i = j
    /\ (pc = "check_game_over" /\ detect_port_scan(red_result)) =>
          /\ Cardinality({ i \in EventRows(round_id) :
                             events[i].event_type = "port_scan_complete" }) = 1
          /\ \A i \in EventRows(round_id) :
                events[i].event_type = "port_scan_complete"
                    => events[i].team = "red" /\ events[i].points_awarded = 10

C8_Witness ==
    /\ pc = "check_game_over"
    /\ {"port_table", "open_port"} \subseteq red_result.result
    /\ Cardinality({ i \in EventRows(round_id) :
                       events[i].event_type = "port_scan_complete" }) = 1

\* C9: deduplication is per round only: a kind detected in the round just
\* scored has an event row of that round, whatever earlier rounds awarded.
C9_AwardedAgainInLaterRound ==
    pc = "check_game_over" =>
        \A k \in DetectedKinds(red_result, blue_result) :
            \E i \in EventRows(round_id) :
                events[i].team = k[1] /\ events[i].event_type = k[2]

C9_Witness ==
    \E i, j \in 1..Len(events) :
        /\ events[i].round_id < events[j].round_id
        /\ events[i].team = events[j].team
        /\ events[i].event_type = events[j].event_type
        /\ events[i].points_awarded = events[j].points_awarded

\* C10: the exit status returned by execute_in_container is the reserved
\* negative value exactly when the container was not found, the exec
\* transport failed or the command timed out; then stderr carries the error
\* text, and otherwise the exit status is the program's own exit code.
C10_NegativeIffSandboxFault ==
    last_exec.container # "-" =>
        /\ (last_exec.result.exit_code = -1) <=> (last_exec.outcome.kind \in SandboxFaults)
        /\ last_exec.outcome.kind \in SandboxFaults => last_exec.result.stderr # {}
        /\ last_exec.outcome.kind = "ran"
              => last_exec.result.exit_code = last_exec.outcome.exit_code


\* ---------------------------------------------------------------------
\* Sandbox faults, decision faults and the denylist
\* ---------------------------------------------------------------------

TimeoutResult == [exit_code |-> -1, stdout |-> {}, stderr |-> {"timeout"}]

PenaltyRows(rid, team, points) == {i \in EventRows(rid) : events[i].team = team /\ events[i].points_awarded = points}

\* C12: a command that contains a BLOCKED_COMMANDS entry is never handed
\* to exec_run, and the round in which a side asked for one carries exactly
\* one event of -10 points for that side.
C12_DenylistedNeverDispatched ==
    /\ \A d \in dispatched : validate_command(d[3])
    /\ (pc = "check_game_over" /\ ~validate_command(red_result.action)) =>
            Cardinality(PenaltyRows(round_id, "red", -10)) = 1

\* C13: after a decision payload that cannot be read, the loop goes on:
\* the game is running, the round gets a Round record whose action for
\* that side is 'none', and one penalty event is recorded for the round.
C13_DecisionFaultIsNoOp ==
    exception = "decision" =>
        /\ pc # "crashed"
        /\ game.status = "running"
        /\ (RoundOver =>
                /\ \E i \in RoundRecords(round_number) :
                       rounds[i].red_action = CmdNone \/ rounds[i].blue_action = CmdNone
                /\ \E i \in EventRows(round_id) : events[i].points_awarded < 0)

\* C14: the status becomes 'aborted' only after a stop request or a
\* persistence fault, and the loop is stopped by nothing but a persistence
\* fault: a sandbox fault or a decision fault leaves the loop running.
C14_OnlyPersistenceStopsLoop ==
    /\ game.status = "aborted" => (abort_signal \/ exception = "persistence")
    /\ pc = "crashed" => exception = "persistence"
    /\ exception = "decision" => game.status = "running"

\* C15: at most one exec_run is in flight; red's exec_run has returned,
\* and red's result exists, before blue's decision is requested and while
\* blue's command runs; nothing is in flight outside the two exec steps.
C15_ExecutionsNeverOverlap ==
    /\ Cardinality(in_flight) <= 1
    /\ (pc \in {"blue_turn", "blue_exec"} =>
            "red-kali" \notin in_flight /\ red_result # NoTurn)
    /\ (pc = "red_exec" <=> in_flight = {"red-kali"})
    /\ (pc = "blue_exec" <=> in_flight = {"blue-target"})

\* Blue's command is running after red's command had timed out.
C15_Witness ==
    /\ pc = "blue_exec"
    /\ in_flight = {"blue-target"}
    /\ last_exec.container = "red-kali"
    /\ last_exec.outcome.kind = "timeout"

\* ---------------------------------------------------------------------
\* Stop requests and the end of the game
\* ---------------------------------------------------------------------

\* C16: when the stop request is already set at the while test, the round
\* is not entered: no decision is requested for it.
C16_AbortAtTopStopsRound ==
    [][(pc = "loop" /\ abort_signal) => pc' # "red_turn"]_vars

\* C17: a stop request that arrives inside round r leaves round r to be
\* finished: once the loop has left the round body, round r has its Round
\* record and all its detected events, no later round was entered, and
\* the game that has ended is 'aborted'.
C17_MidRoundAbortFinishesRound ==
    (abort_at.at = "mid" /\ RoundOver) =>
        /\ round_number = abort_at.round
        /\ RoundFinished(round_number)
        /\ Cardinality(RoundRecords(round_number)) = 1
        /\ AppliedKinds(round_number) = DetectedKinds(red_result, blue_result)
        /\ (pc = "done" => game.status = "aborted")

\* C18: once the status is not 'running', no step changes the game row
\* (scores, status, winner, end mark) and no Round or Event row is added.
C18_FrozenAfterEnd ==
    [][game.status # "running" =>
          game' = game /\ rounds' = rounds /\ events' = events]_vars

\* The game was completed and a stop request arrived afterwards.
C18_Witness ==
    /\ game.status = "completed"
    /\ game.ended
    /\ abort_at.at = "after"
    /\ Len(events) > 0

TerminalCondition(team) == IF team = "red" THEN "flag_data" \in red_result.result ELSE "recovery_done" \in blue_result.result

\* C19: when exactly one side reaches its terminal condition in a round
\* below max_rounds, the loop does not go back to the while test, and a
\* game that has ended without a stop request is 'completed' with that
\* side as the winner.
C19_TerminalConditionEndsGame ==
    \A team \in Teams :
        (/\ TerminalCondition(team)
         /\ \A other \in Teams \ {team} : ~TerminalCondition(other)
         /\ round_number < max_rounds) =>
            /\ pc # "loop"
            /\ (pc = "done" /\ ~abort_signal =>
                    game.status = "completed" /\ game.winner = team)

\* C20: when both sides reach their terminal condition in the same round,
\* the completed game names as winner the side evaluated first (red: its
\* events are processed before blue's in evaluate_round).
C20_TieGoesToFirstReported ==
    (/\ TerminalCondition("red")
     /\ TerminalCondition("blue")
     /\ pc = "done"
     /\ game.status = "completed") => game.winner = "red"


\* ---------------------------------------------------------------------
\* The round limit
\* ---------------------------------------------------------------------

C22_PlaysExactlyMaxRounds ==
    (/\ max_rounds >= 1
     /\ pc \in {"done", "crashed"}
     /\ \A t \in Teams : ~TerminalFired(t)
     /\ ~abort_signal
     /\ exception # "persistence") =>
        /\ game.status = "completed"
        /\ Len(rounds) = max_rounds
        /\ round_number = max_rounds

\* ---------------------------------------------------------------------
\* Phases
\* ---------------------------------------------------------------------

C24_PastTableIsLastPhase ==
    \A k \in 1..Len(phase_log) :
        phase_log[k][1] > 30 => phase_log[k][2] = "mission_completion"

\* Round 31 was asked.
C24_Witness ==
    /\ Len(phase_log) >= 1
    /\ phase_log[1][1] = 31

\* C25: every rounds row carries the phase the table gives for its round
\* number, never a label taken from the red decision.
C25_RecordPhaseFromTable ==
    \A i \in 1..Len(rounds) :
        rounds[i].phase = get_current_phase(rounds[i].round_number)

\* C26: in round 1, when red's output shows an open port, the round has
\* exactly one port_scan_complete event, of +10 for red, red's score has
\* risen by 10 through it, and the rounds row is labelled reconnaissance.
C26_PortScanInRoundOne ==
    (/\ round_number = 1
     /\ pc = "check_game_over"
     /\ detect_port_scan(red_result)) =>
        /\ Cardinality({i \in EventRows(round_id) :
                            events[i].event_type = "port_scan_complete"}) = 1
        /\ \A i \in EventRows(round_id) :
              events[i].event_type = "port_scan_complete" =>
                  events[i].team = "red" /\ events[i].points_awarded = 10
        /\ game.red_score = EventSum(events, "red")
        /\ game.red_score >= 10
        /\ \A i \in RoundRecords(1) : rounds[i].phase = "reconnaissance"

\* C27: a round's score changes are applied before its Round record is
\* written, and game-over is evaluated only after the record is written:
\* whenever the current round has its rounds row, all its detected events
\* are applied, and at check_game_over the row exists.
C27_ScoredBeforePersisted ==
    /\ (round_number >= 1 /\ RoundRecords(round_number) # {}) =>
            AppliedKinds(round_number) = DetectedKinds(red_result, blue_result)
    /\ (pc = "check_game_over" => RoundRecords(round_number) # {})


\* ---------------------------------------------------------------------
\* Scoring as a function
\* ---------------------------------------------------------------------

EventSet(tbl) == { tbl[i] : i \in 1..Len(tbl) }

\* C29: whatever the order in which the six checks are made, the scores
\* and the set of event rows of the round are those evaluate_round
\* produces; made in evaluate_round's own order they give its result.
C29_ClassifierOrderIrrelevant ==
    LET start == score_runs[1]
        base == evaluate_round(start, round_id, red_result, blue_result)
        n == Len(Classifiers)
    IN  /\ evaluate_in_order([i \in 1..n |-> i], n, start, round_id,
                             red_result, blue_result) = base
        /\ \A order \in Permutations(1..n) :
              LET out == evaluate_in_order(order, n, start, round_id,
                                           red_result, blue_result)
              IN  /\ out.game = base.game
                  /\ EventSet(out.events) = EventSet(base.events)

\* Blue both blocked the attack and took the service down, from score 0.
C29_Witness ==
    /\ pc = "score_done"
    /\ score_runs[1].game.blue_score = 0
    /\ {"drop_rule", "service_inactive"} \subseteq blue_result.result
    /\ "open_port" \in red_result.result
    /\ game.blue_score = 0

TableValue(detected, points) == IF detected THEN points ELSE 0

\* C31: the change evaluate_round makes to each side's score is the sum of
\* the table values of that side's detected kinds (red: port scan 10,
\* service identified 15, shell access 100; blue: attack blocked 50, IP
\* banned 75, service down -50); the other side's kinds do not enter it.
C31_DeltaIsTableSum ==
    Len(score_runs) >= 2 =>
        /\ score_runs[2].game.red_score - score_runs[1].game.red_score
             = TableValue(detect_port_scan(red_result), 10)
               + TableValue(detect_service_identification(red_result), 15)
               + TableValue(detect_shell_access(red_result), 100)
        /\ score_runs[2].game.blue_score - score_runs[1].game.blue_score
             = TableValue(detect_attack_blocked(blue_result), 50)
               + TableValue(detect_ip_blocked(blue_result), 75)
               + TableValue(detect_service_down(blue_result), -50)

\* Red scanned and got a shell while blue only took its service down.
C31_Witness ==
    /\ pc = "score_rewind"
    /\ red_result.result = {"open_port", "shell_prompt"}
    /\ blue_result.result = {"service_inactive"}
    /\ game.red_score - score_runs[1].game.red_score = 110
    /\ game.blue_score - score_runs[1].game.blue_score = -50


\* ---------------------------------------------------------------------
\* Output size
\* ---------------------------------------------------------------------

\* a result dict without the key reads as not truncated
Truncated(result) == "truncated" \in DOMAIN result /\ result.truncated

Capped(result, produced, stream) ==
    /\ StreamLength(result[stream]) <= MAX_OUTPUT_SIZE
    /\ (Truncated(result) <=> StreamLength(produced[stream]) > MAX_OUTPUT_SIZE)

\* C32: for each stream of a result, the returned length is at most
\* MAX_OUTPUT_SIZE and the result's truncated flag is set exactly when the
\* program produced more than that.
C32_OutputCapped ==
    (/\ pc = "exec_done"
     /\ last_exec.outcome.kind = "ran"
     /\ last_exec.outcome.decodable) =>
        /\ Capped(last_exec.result, last_exec.outcome, "stdout")
        /\ Capped(last_exec.result, last_exec.outcome, "stderr")


\* ---------------------------------------------------------------------
\* Process exit code
\* ---------------------------------------------------------------------

\* The exit codes main.py can end with: after end_game, 0 for a completed
\* game and 1 otherwise; after an exception that left run_game_loop, 1 if
\* nothing catches it and 0 or 1 if main.py does; none while the loop runs.
ExitCodes ==
    IF pc = "done" THEN {IF game.status = "completed" THEN 0 ELSE 1}
    ELSE IF pc = "crashed" THEN {0, 1}
    ELSE {}

\* C33: the process exits with 0 exactly when the game ended 'completed',
\* and with another code only when the game ended 'aborted'; a transport
\* error folded into a round leaves the exit code of a completed game 0.
C33_ExitCodeReflectsStatus ==
    \A e \in ExitCodes :
        /\ (e = 0 <=> game.status = "completed")
        /\ (e # 0 => game.status = "aborted")


\* ---------------------------------------------------------------------
\* History window
\* ---------------------------------------------------------------------

Min(a, b) == IF a <= b THEN a ELSE b

\* C34: the history shown to a side in round n is that side's turns of
\* rounds n-m .. n-1 of the same game, m = min(10, n-1), in increasing
\* round order: nothing of round n, nothing of another game.
C34_HistoryWindow ==
    pc = "history_done" =>
        LET m == Min(10, round_number - 1)
        IN  /\ Len(probe.window) = m
            /\ \A i \in 1..m :
                  probe.window[i] = [game_id |-> 1,
                                     round_number |-> round_number - 1 - m + i,
                                     team |-> probe.team]

\* Round 13 of game 1 with 12 earlier rounds and rows of another game:
\* the window is rounds 3..12.
C34_Witness ==
    /\ pc = "history_done"
    /\ round_number = 13
    /\ Len(rounds) = 14
    /\ probe.team = "blue"
    /\ probe.window[1].round_number = 3


\* ---------------------------------------------------------------------
\* Retry of a failed write
\* ---------------------------------------------------------------------

\* C35: when the log_round of round r fails once and a retry would succeed,
\* round r is persisted exactly once, the game stays 'running' and the loop
\* goes on to round r+1.
C35_RetryPersistsOnce ==
    (exception = "persistence" /\ sink_faults = 1) =>
        /\ Cardinality(RoundRecords(round_number)) = 1
        /\ game.status = "running"
        /\ pc # "crashed"


\* ---------------------------------------------------------------------
\* The defender's 'none'
\* ---------------------------------------------------------------------

\* C36: when blue decides 'none', nothing is sent to the blue container in
\* that round; the blue turn has action 'none', an empty result, success
\* true and execution time 0; the round is logged with that turn and the
\* loop goes on (unless the write itself fails).
C36_NoneIsNoOp ==
    (blue_result # NoTurn /\ blue_result.action = CmdNone) =>
        /\ ~\E d \in dispatched : d[1] = round_number /\ d[2] = "blue"
        /\ "blue-target" \notin in_flight
        /\ blue_result.result = {}
        /\ blue_result.success
        /\ blue_result.execution_time_ms = 0
        /\ (pc = "crashed" => exception = "persistence")
        /\ (pc \in {"evaluate", "check_game_over", "end_game", "done"} =>
               /\ Cardinality(RoundRecords(round_number)) = 1
               /\ \A i \in RoundRecords(round_number) :
                     rounds[i].blue_action = CmdNone /\ rounds[i].blue_success)

\* Blue chose 'none' in round 1 and the loop is in round 2.
C36_Witness ==
    /\ round_number = 2
    /\ pc = "blue_turn"
    /\ Len(rounds) = 1
    /\ rounds[1].blue_action = CmdNone
    /\ rounds[1].blue_success
    /\ ~\E d \in dispatched : d[1] = 1 /\ d[2] = "blue"


\* ---------------------------------------------------------------------
\* Command validation
\* ---------------------------------------------------------------------

\* blocked occurs in command at position p, character by character
OccursAt(command, blocked, p) ==
    /\ p + Len(blocked) - 1 <= Len(command)
    /\ \A k \in 1..Len(blocked) : command[p + k - 1] = blocked[k]

HasBlocked(command) ==
    \E blocked \in BLOCKED_COMMANDS : \E p \in 1..Len(command) :
        OccursAt(command, blocked, p)

StartsWithAllowed(command) ==
    \E allowed \in ALLOWED_RED_COMMANDS :
        Len(allowed) <= Len(command) /\ OccursAt(command, allowed, 1)

\* C37: validate_command(c) is false exactly when 'rm -rf /', 'dd' or the
\* fork bomb occurs somewhere in c as a contiguous substring; a command
\* without one is accepted whether or not it starts with an allowed tool.
C37_BlocklistOnly ==
    pc = "validate_done" =>
        /\ probe.result = ~HasBlocked(probe.command)
        /\ (~HasBlocked(probe.command) /\ ~StartsWithAllowed(probe.command)
               => probe.result)

\* 'nmap --addr' starts with an allowed tool and is rejected for the 'dd'
\* inside it.
C37_Witness ==
    /\ pc = "validate_done"
    /\ probe.command = << "n", "m", "a", "p", " ", "-", "-", "a", "d", "d", "r" >>
    /\ StartsWithAllowed(probe.command)
    /\ ~probe.result


\* ---------------------------------------------------------------------
\* Dashboard
\* ---------------------------------------------------------------------

\* C38: after any sequence of select-game, back-to-list and the three
\* navigation buttons, exactly one of GameList, GameDetail, Statistics and
\* LiveMonitor is rendered.
C38_ExactlyOnePanel == Cardinality(Rendered) = 1

\* C39: a join_game for g is answered by a leave_game for g before a
\* join_game for another game and when the component unmounts: at most one
\* room is joined at any time, none once no subscribing component is
\* mounted, and each of the three handlers is registered at most once.
C39_JoinLeavePaired ==
    /\ \A g \in GameIds : rooms[g] \in {0, 1}
    /\ Cardinality({ g \in GameIds : rooms[g] > 0 }) <= 1
    /\ \A e \in SocketEvents : handlers[e] \in {0, 1}
    /\ (Subscribed(effect) =>
           /\ rooms[effect.game] = 1
           /\ \A e \in Listens(effect.component) : handlers[e] = 1)
    /\ (~Subscribed(effect) =>
           /\ \A g \in GameIds : rooms[g] = 0
           /\ \A e \in SocketEvents : handlers[e] = 0)

\* LiveMonitor has left game 1 and joined game 2 after GameDetail had
\* joined and left a game.
C39_Witness ==
    /\ effect = [component |-> "LiveMonitor", game |-> 2, socket |-> TRUE]
    /\ selectedGame = 1
    /\ rooms[2] = 1
    /\ rooms[1] = 0
    /\ handlers["game_over"] = 1

====
